---- MODULE Spec2Model ----
(***************************************************************************)
(* Task Tracker v1.0: the append-only event log (eventlist.txt) and its    *)
(* replay into the task projection, as implemented in src/server.js, and   *)
(* the page that renders the tasks, src/public/main.js.                    *)
(*                                                                         *)
(* A JavaScript string is a sequence of one-character strings.  The event  *)
(* file is the sequence of its newline-terminated lines.                   *)
(***************************************************************************)
EXTENDS Integers, Sequences, FiniteSets, TLC

VARIABLES
    fileExists,   \* fs.existsSync(EVENT_FILE)
    log,          \* the lines of EVENT_FILE, in file order
    now,          \* the wall clock read by Date.now() / new Date()
    fsOk,         \* whether the next fs calls on EVENT_FILE succeed, in call order
                  \* (FALSE: the call throws: permissions, disk full); calls
                  \* past its end succeed
    req,          \* the request handled last
    resp,         \* the response sent last
    loop,         \* the event loop under SpecLoop: the requests waiting for
                  \* their handler, the handlers on the call stack, and the
                  \* lines whose appendFileSync returned
    ui            \* the page under SpecUI: the Set `notified`, the notify
                  \* calls made, the two rendered lists, the loadAndRender
                  \* runs awaiting their response

vars == <<fileExists, log, now, fsOk, req, resp, loop, ui>>

----------------------------------------------------------------------------
(* Bounds of the model *)

MaxLog == 2        \* appends stop when the file holds this many lines
MaxClock == 1      \* the clock stops ticking here
MaxRand == 1       \* Math.random() yields 0..MaxRand
MaxLines == 4      \* longest pre-existing file replayed under SpecReplay
MaxCalls == 2      \* fs calls whose outcome SpecIO fixes in advance
MaxRuns == 2       \* loadAndRender runs awaiting their response at once

----------------------------------------------------------------------------
(* JavaScript values *)

\* undefined: an absent property.  No string equals it (its one element is
\* not a character).
Undefined == <<"undefined">>

\* null, as JSON.parse("null") returns it.
Null == <<"null">>

\* ToBoolean of a string or undefined: falsy are undefined and "".
\* Only a missing value taken as falsy
TruthyWhenDefined(v) == v # Undefined

Truthy(v) == v # Undefined /\ v # Null /\ v # <<>>

\* String(v) for v a string or undefined.
String(v) ==
    IF v = Undefined THEN <<"u", "n", "d", "e", "f", "i", "n", "e", "d">>
    ELSE IF v = Null THEN <<"n", "u", "l", "l">>
    ELSE v

\* a || b
OrElse(a, b) == IF Truthy(a) THEN a ELSE b

RECURSIVE TrimStart(_)
TrimStart(s) ==
    IF s # <<>> /\ Head(s) = " " THEN TrimStart(Tail(s)) ELSE s

RECURSIVE TrimEnd(_)
TrimEnd(s) ==
    IF s # <<>> /\ s[Len(s)] = " " THEN TrimEnd(SubSeq(s, 1, Len(s) - 1)) ELSE s

\* String.prototype.trim
Trim(s) == TrimEnd(TrimStart(s))

Digits == <<"0", "1", "2", "3", "4", "5", "6", "7", "8", "9",
            "a", "b", "c", "d", "e", "f", "g", "h", "i", "j", "k", "l", "m",
            "n", "o", "p", "q", "r", "s", "t", "u", "v", "w", "x", "y", "z">>

\* Number.prototype.toString(radix) of a natural number
RECURSIVE ToRadix(_, _)
ToRadix(n, radix) ==
    IF n < radix THEN <<Digits[n + 1]>>
    ELSE ToRadix(n \div radix, radix) \o <<Digits[(n % radix) + 1]>>

\* new Date().toISOString() at clock value t: the instant in decimal, then Z
toISOString(t) == ToRadix(t, 10) \o <<"Z">>

StartsWith(s, p) == Len(s) >= Len(p) /\ SubSeq(s, 1, Len(p)) = p

----------------------------------------------------------------------------
(* Objects and JSON lines.  An object is the sequence of its <<key, value>>  *)
(* members in insertion order; a line is the text of one JSON document.     *)

\* obj.key: the last member with that key, undefined when there is none
Prop(obj, key) ==
    LET hits == {i \in 1..Len(obj) : obj[i][1] = key}
    IN  IF hits = {} THEN Undefined
        ELSE obj[CHOOSE i \in hits : \A j \in hits : j <= i][2]

\* JSON.stringify of an object with string members: undefined members are
\* left out; the text never holds a raw newline.
JSONstringify(obj) ==
    [kind |-> "object", members |-> SelectSeq(obj, LAMBDA m : m[2] # Undefined)]

GarbageLine == [kind |-> "garbage", members |-> <<>>]   \* not JSON
NullLine == [kind |-> "null", members |-> <<>>]         \* the text null
BlankLine == [kind |-> "blank", members |-> <<>>]       \* the empty line

\* JSON.parse: throws SyntaxError on text that is not JSON
JSONparse(line) ==
    CASE line.kind = "object" -> [threw |-> FALSE, value |-> line.members]
      [] line.kind = "null" -> [threw |-> FALSE, value |-> Null]
      [] OTHER -> [threw |-> TRUE, value |-> Undefined]

S_create == <<"c", "r", "e", "a", "t", "e">>
S_delete == <<"d", "e", "l", "e", "t", "e">>
S_update == <<"u", "p", "d", "a", "t", "e">>

----------------------------------------------------------------------------
(* server.js *)

\* The time component left out of the id
makeIdRandomOnly(t, rand) == <<"t", "_">> \o ToRadix(rand, 36)

\* The "t_" prefix left out of the id
makeIdUnprefixed(t, rand) == ToRadix(t, 36) \o <<"_">> \o ToRadix(rand, 36)

\* makeId(): t is Date.now(), rand is Math.floor(Math.random() * 1e9)
makeId(t, rand) == <<"t", "_">> \o ToRadix(t, 36) \o <<"_">> \o ToRadix(rand, 36)

\* The event file as the fs calls see it
File == [exists |-> fileExists, lines |-> log]

\* fs.writeFileSync in place of fs.appendFileSync: the line replaces the file
appendFileSyncReplacing(f, line) == [exists |-> TRUE, lines |-> <<line>>]

\* fs.appendFileSync(EVENT_FILE, line): creates the file when it is missing
appendFileSync(f, line) == [exists |-> TRUE, lines |-> Append(f.lines, line)]

\* fs.writeFileSync(EVENT_FILE, data): replaces the content
writeFileSync(f, lines) == [exists |-> TRUE, lines |-> lines]

\* The outcome of the next fs call, and the outcomes of the calls after it
NextOk(oks) == oks = <<>> \/ Head(oks)
Rest(oks) == IF oks = <<>> THEN <<>> ELSE Tail(oks)

\* A failed append tried once more
appendEventRetrying(f, evtObj, oks) ==
    IF NextOk(oks)
    THEN [threw |-> FALSE, file |-> appendFileSync(f, JSONstringify(evtObj)),
          oks |-> Rest(oks)]
    ELSE IF NextOk(Rest(oks))
    THEN [threw |-> FALSE, file |-> appendFileSync(f, JSONstringify(evtObj)),
          oks |-> Rest(Rest(oks))]
    ELSE [threw |-> TRUE, file |-> f, oks |-> Rest(Rest(oks))]

\* appendEvent(evtObj): one fs.appendFileSync call, whose exception is the
\* caller's to catch; a call that throws writes nothing
appendEvent(f, evtObj, oks) ==
    IF NextOk(oks)
    THEN [threw |-> FALSE, file |-> appendFileSync(f, JSONstringify(evtObj)),
          oks |-> Rest(oks)]
    ELSE [threw |-> TRUE, file |-> f, oks |-> Rest(oks)]

\* The Map `tasks`: its values in insertion order, keyed by their id
MapHas(m, k) == \E i \in 1..Len(m) : m[i].id = k

\* tasks kept as a list: set adds an entry even when the key is present
MapSetAppending(m, k, v) == Append(m, v)

\* tasks.set that moves a present key to the end
MapSetMovingLast(m, k, v) == Append(SelectSeq(m, LAMBDA x : x.id # k), v)

\* tasks.set skipped when the key is present: the first value is kept
MapSetKeepingFirst(m, k, v) ==
    IF MapHas(m, k) THEN m ELSE Append(m, v)

MapSet(m, k, v) ==
    IF MapHas(m, k)
    THEN [i \in 1..Len(m) |-> IF m[i].id = k THEN v ELSE m[i]]
    ELSE Append(m, v)

\* The entry set last deleted, whatever the key
MapDeleteLast(m, k) == SubSeq(m, 1, Len(m) - 1)

\* tasks.delete(k) left out
MapDeleteForgotten(m, k) == m

MapDelete(m, k) == SelectSeq(m, LAMBDA v : v.id # k)

\* The task object built from a create event at clock value t
TaskOf(evt, t) ==
    [id |-> Prop(evt, "id"),
     name |-> Prop(evt, "name"),
     date |-> Prop(evt, "date"),
     time |-> Prop(evt, "time"),
     description |-> OrElse(Prop(evt, "description"), <<>>),
     createdAt |-> OrElse(Prop(evt, "createdAt"), toISOString(t))]

\* Replay state: the Map, the Set `deleted`, and whether an exception is in flight
NewReplay == [tasks |-> <<>>, deleted |-> {}, threw |-> FALSE]

\* evt.type === 'create'
IsCreate(evt) == Prop(evt, "type") = S_create

\* a plain else: every event that is not a create counts as a delete
IsDeleteByDefault(evt) == TRUE

\* else if (evt.type === 'delete')
IsDelete(evt) == Prop(evt, "type") = S_delete

\* The create branch guarded by the deleted set: a deleted id stays deleted
OnCreateUnlessDeleted(st, evt, t) ==
    IF Prop(evt, "id") \in st.deleted THEN st
    ELSE [st EXCEPT !.tasks = MapSet(st.tasks, Prop(evt, "id"), TaskOf(evt, t))]

\* The create branch: tasks.set(evt.id, {...})
OnCreate(st, evt, t) ==
    [st EXCEPT !.tasks = MapSet(st.tasks, Prop(evt, "id"), TaskOf(evt, t))]

\* tasks.clear() in place of tasks.delete(evt.id)
OnDeleteClearing(st, evt) ==
    [st EXCEPT !.deleted = st.deleted \cup {Prop(evt, "id")}, !.tasks = <<>>]

\* The delete branch: deleted.add(evt.id); tasks.delete(evt.id)
OnDelete(st, evt) ==
    [st EXCEPT !.deleted = st.deleted \cup {Prop(evt, "id")},
               !.tasks = MapDelete(st.tasks, Prop(evt, "id"))]

\* The try block of the replay loop for one line
TryBlock(st, line, t) ==
    LET parsed == JSONparse(line)
        evt == parsed.value
    IN  IF parsed.threw THEN [st EXCEPT !.threw = TRUE]             \* SyntaxError
        ELSE IF evt = Null THEN [st EXCEPT !.threw = TRUE]          \* TypeError on evt.type
        ELSE IF IsCreate(evt) THEN OnCreate(st, evt, t)
        ELSE IF IsDelete(evt) THEN OnDelete(st, evt)
        ELSE st

\* The exception rethrown: it leaves the loop and readProjection
CatchBlockRethrowing(before, after) == after

\* The catch block: the line is reported and skipped; before is the state
\* the try block started from
CatchBlock(before, after) == IF after.threw THEN before ELSE after

\* for (const line of lines) { try {...} catch (e) {...} }
RECURSIVE ForLines(_, _, _)
ForLines(st, lines, t) ==
    IF lines = <<>> \/ st.threw THEN st
    ELSE ForLines(CatchBlock(st, TryBlock(st, Head(lines), t)), Tail(lines), t)

\* data.split('\n').filter(Boolean)
SplitLines(lines) == SelectSeq(lines, LAMBDA l : l.kind # "blank")

\* The create-if-missing step left out
EnsureFileSkipped(f) == f

\* The create-if-missing step of readProjection
EnsureFile(f) == IF ~f.exists THEN writeFileSync(f, <<>>) ELSE f

\* fs.readFileSync(EVENT_FILE, 'utf-8'): throws ENOENT on a missing file
readFileSync(f) == [threw |-> ~f.exists, lines |-> f.lines]

\* readProjection() on file f at clock value t.  fs.existsSync never
\* throws; fs.writeFileSync is called on a missing file only, fs.readFileSync
\* always, unless the call before it threw
readProjection(f, oks, t) ==
    IF ~f.exists /\ ~NextOk(oks)
    THEN [threw |-> TRUE, file |-> f, tasks |-> <<>>, oks |-> Rest(oks)]
    ELSE LET f1 == EnsureFile(f)
             oks1 == IF ~f.exists THEN Rest(oks) ELSE oks
             data == readFileSync(f1)
             st == ForLines(NewReplay, SplitLines(data.lines), t)
         IN  IF ~NextOk(oks1) \/ data.threw
             THEN [threw |-> TRUE, file |-> f1, tasks |-> <<>>, oks |-> Rest(oks1)]
             ELSE [threw |-> st.threw, file |-> f1, tasks |-> st.tasks,
                   oks |-> Rest(oks1)]

----------------------------------------------------------------------------
(* Requests and responses *)

NoBody == [name |-> Undefined, date |-> Undefined, time |-> Undefined,
           description |-> Undefined]

Response(status, ok, id, tasks) ==
    [status |-> status, ok |-> ok, id |-> id, tasks |-> tasks]

\* app.get('/api/tasks')
Get ==
    LET r == readProjection(File, fsOk, now)
    IN  /\ req' = [op |-> "GET", id |-> Undefined, body |-> NoBody]
        /\ fileExists' = r.file.exists
        /\ log' = r.file.lines
        /\ resp' = IF r.threw THEN Response(500, FALSE, Undefined, <<>>)
                   ELSE Response(200, TRUE, Undefined, r.tasks)
        /\ fsOk' = r.oks
        /\ UNCHANGED <<now, loop, ui>>

\* date and time stored under each other's key
CreateEventSwapped(body, id, t) ==
    <<<<"type", S_create>>,
      <<"id", id>>,
      <<"name", Trim(String(body.name))>>,
      <<"date", IF Truthy(body.time) THEN String(body.time) ELSE <<>>>>,
      <<"time", IF Truthy(body.date) THEN String(body.date) ELSE <<>>>>,
      <<"description", IF Truthy(body.description) THEN String(body.description) ELSE <<>>>>,
      <<"createdAt", toISOString(t)>>>>

\* The create event POST builds from the request body
CreateEvent(body, id, t) ==
    <<<<"type", S_create>>,
      <<"id", id>>,
      <<"name", Trim(String(body.name))>>,
      <<"date", IF Truthy(body.date) THEN String(body.date) ELSE <<>>>>,
      <<"time", IF Truthy(body.time) THEN String(body.time) ELSE <<>>>>,
      <<"description", IF Truthy(body.description) THEN String(body.description) ELSE <<>>>>,
      <<"createdAt", toISOString(t)>>>>

\* app.post('/api/tasks')
Post(body, rand) ==
    /\ req' = [op |-> "POST", id |-> Undefined, body |-> body]
    /\ IF ~Truthy(body.name)
       THEN /\ resp' = Response(400, FALSE, Undefined, <<>>)
            /\ UNCHANGED <<fileExists, log, fsOk>>
       ELSE LET id == makeId(now, rand)
                r == appendEvent(File, CreateEvent(body, id, now), fsOk)
            IN  /\ Len(log) < MaxLog
                /\ fileExists' = r.file.exists
                /\ log' = r.file.lines
                /\ resp' = IF r.threw THEN Response(500, FALSE, Undefined, <<>>)
                           ELSE Response(201, TRUE, id, <<>>)
                /\ fsOk' = r.oks
    /\ UNCHANGED <<now, loop, ui>>

\* The type member left out of the delete event
DeleteEventUntyped(id, t) ==
    <<<<"id", id>>, <<"deletedAt", toISOString(t)>>>>

\* The delete event DELETE builds
DeleteEvent(id, t) ==
    <<<<"type", S_delete>>, <<"id", id>>, <<"deletedAt", toISOString(t)>>>>

\* app.delete('/api/tasks/:id')
Delete(id) ==
    /\ req' = [op |-> "DELETE", id |-> id, body |-> NoBody]
    /\ IF ~Truthy(id)
       THEN /\ resp' = Response(400, FALSE, Undefined, <<>>)
            /\ UNCHANGED <<fileExists, log, fsOk>>
       ELSE LET r == appendEvent(File, DeleteEvent(id, now), fsOk)
            IN  /\ Len(log) < MaxLog
                /\ fileExists' = r.file.exists
                /\ log' = r.file.lines
                /\ resp' = IF r.threw THEN Response(500, FALSE, Undefined, <<>>)
                           ELSE Response(200, TRUE, Undefined, <<>>)
                /\ fsOk' = r.oks
    /\ UNCHANGED <<now, loop, ui>>

\* Time passes between requests
Tick ==
    /\ now < MaxClock
    /\ now' = now + 1
    /\ UNCHANGED <<fileExists, log, fsOk, req, resp, loop, ui>>

\* The file system starts failing: the outcomes of the next fs calls
FsFails(oks) ==
    /\ fsOk = <<>>
    /\ fsOk' = oks
    /\ UNCHANGED <<fileExists, log, now, req, resp, loop, ui>>

----------------------------------------------------------------------------
(* Inputs *)

Date1 == <<"2", "5", "-", "1", "-", "2">>
Time1 == <<"0", "9", ":", "3", "0">>

\* Request bodies of POST /api/tasks
Bodies ==
    { NoBody,
      [name |-> Null, date |-> Date1, time |-> Time1, description |-> Undefined],
      [name |-> <<>>, date |-> Date1, time |-> Time1, description |-> <<"x">>],
      [name |-> <<"a">>, date |-> Date1, time |-> Time1, description |-> <<"x">>],
      [name |-> <<" ", "b", " ">>, date |-> <<>>, time |-> <<>>, description |-> Undefined],
      [name |-> <<" ">>, date |-> Date1, time |-> <<>>, description |-> <<>>] }

Rands == 0..MaxRand

\* The :id parameters of DELETE /api/tasks/:id: generated ids and a foreign one
ForeignId == <<"z">>
DeleteIds == {makeId(0, 0), ForeignId}

\* Lines a file may hold before the server starts (written by other tools,
\* by hand, or by an earlier run)
IdA == makeId(0, 0)
IdB == <<"t", "_", "b">>

FullCreate(id) ==
    JSONstringify(<<<<"type", S_create>>, <<"id", id>>, <<"name", <<"a">>>>,
                    <<"date", Date1>>, <<"time", Time1>>,
                    <<"description", <<"x">>>>, <<"createdAt", <<"c">>>>>>)

BareCreate(id) ==
    JSONstringify(<<<<"type", S_create>>, <<"id", id>>, <<"name", <<"n">>>>>>)

DeleteLine(id) ==
    JSONstringify(<<<<"type", S_delete>>, <<"id", id>>>>)

UpdateLine(id) ==
    JSONstringify(<<<<"type", S_update>>, <<"id", id>>, <<"name", <<"u">>>>>>)

ReplayLines ==
    { GarbageLine, NullLine, BlankLine, UpdateLine(IdA),
      FullCreate(IdA), BareCreate(IdA), DeleteLine(IdA),
      FullCreate(IdB) }

StartLines == {GarbageLine, BareCreate(IdA), UpdateLine(IdA)}

SeqsUpTo(S, n) == UNION {[1..k -> S] : k \in 0..n}

NoRequest == [op |-> "none", id |-> Undefined, body |-> NoBody]
NoResponse == Response(0, FALSE, Undefined, <<>>)
NoLoop == [pending |-> {}, running |-> {}, appended |-> <<>>]
NoUI == [notified |-> {}, notifications |-> <<>>, tasks |-> <<>>, at |-> 0,
         scheduledList |-> <<>>, dashboardList |-> <<>>, runs |-> 0]

----------------------------------------------------------------------------
(* The server: requests arrive one at a time (every handler runs to        *)
(* completion on synchronous fs calls) on a working file system.  At start *)
(* the file is missing or holds one line; the empty file is what a first   *)
(* read of the missing one leaves.                                         *)

Init ==
    /\ fileExists \in BOOLEAN
    /\ log \in IF fileExists THEN {<<l>> : l \in StartLines} ELSE {<<>>}
    /\ now = 0
    /\ fsOk = <<>>
    /\ req = NoRequest
    /\ resp = NoResponse
    /\ loop = NoLoop
    /\ ui = NoUI

Next ==
    \/ Get
    \/ \E body \in Bodies, rand \in Rands : Post(body, rand)
    \/ \E id \in DeleteIds : Delete(id)
    \/ Tick

Spec == Init /\ [][Next]_vars

(* Replay alone: any pre-existing file, read at any instant. *)

InitReplay ==
    /\ fileExists = TRUE
    /\ log \in SeqsUpTo(ReplayLines, MaxLines)
    /\ now \in 0..MaxClock
    /\ fsOk = <<>>
    /\ req = NoRequest
    /\ resp = NoResponse
    /\ loop = NoLoop
    /\ ui = NoUI

NextReplay == Get

SpecReplay == InitReplay /\ [][NextReplay]_vars

(* The server on a file system whose calls can throw: between requests the *)
(* outcomes of the next fs calls get fixed, at least one of them a failure. *)

FaultPlans == {oks \in SeqsUpTo(BOOLEAN, MaxCalls) : \E k \in 1..Len(oks) : ~oks[k]}

BodyIO == [name |-> <<"a">>, date |-> Date1, time |-> Time1, description |-> <<"x">>]

NextIO ==
    \/ Get
    \/ Post(BodyIO, 0)
    \/ Delete(IdA)
    \/ \E oks \in FaultPlans : FsFails(oks)

SpecIO == Init /\ [][NextIO]_vars

----------------------------------------------------------------------------
(* Concurrent requests.  Requests arrive at any time and wait in the event *)
(* loop; a handler is a callback made of synchronous fs calls, taken here  *)
(* one fs call at a time.                                                  *)

LoopRequests ==
    { [op |-> "GET", id |-> Undefined, body |-> NoBody],
      [op |-> "POST", id |-> Undefined, body |-> BodyIO],
      [op |-> "DELETE", id |-> IdA, body |-> NoBody] }

Appends(r) == r.op \in {"POST", "DELETE"}

\* A callback started while another is on the call stack
CanDispatchAnytime == TRUE

\* The event loop starts a callback only when the call stack is empty: no
\* handler awaits or yields, every fs call is the Sync variant
CanDispatch == loop.running = {}

\* A request arrives while others wait or run
Arrive(r) ==
    /\ r \notin loop.pending
    /\ loop' = [loop EXCEPT !.pending = @ \cup {r}]
    /\ UNCHANGED <<fileExists, log, now, fsOk, req, resp, ui>>

\* The event loop calls the handler of a waiting request
Dispatch(r) ==
    /\ CanDispatch
    /\ r \in loop.pending
    /\ Appends(r) => Len(log) < MaxLog
    /\ loop' = [loop EXCEPT
                   !.pending = @ \ {r},
                   !.running = @ \cup {[r |-> r,
                                         pc |-> IF Appends(r) THEN "append" ELSE "exists"]}]
    /\ UNCHANGED <<fileExists, log, now, fsOk, req, resp, ui>>

\* readProjection: if (!fs.existsSync(EVENT_FILE))
StepExists(f) ==
    /\ f \in loop.running /\ f.pc = "exists"
    /\ loop' = [loop EXCEPT !.running =
                   (@ \ {f}) \cup {[f EXCEPT !.pc = IF fileExists THEN "read" ELSE "write"]}]
    /\ UNCHANGED <<fileExists, log, now, fsOk, req, resp, ui>>

\* readProjection: fs.writeFileSync(EVENT_FILE, '', 'utf-8')
StepWrite(f) ==
    /\ f \in loop.running /\ f.pc = "write"
    /\ fileExists' = writeFileSync(File, <<>>).exists
    /\ log' = writeFileSync(File, <<>>).lines
    /\ loop' = [loop EXCEPT !.running = (@ \ {f}) \cup {[f EXCEPT !.pc = "read"]}]
    /\ UNCHANGED <<now, fsOk, req, resp, ui>>

\* readProjection from fs.readFileSync on, and the response of GET
StepRead(f) ==
    /\ f \in loop.running /\ f.pc = "read"
    /\ LET data == readFileSync(File)
           st == ForLines(NewReplay, SplitLines(data.lines), now)
       IN  resp' = IF data.threw \/ st.threw
                   THEN Response(500, FALSE, Undefined, <<>>)
                   ELSE Response(200, TRUE, Undefined, st.tasks)
    /\ req' = f.r
    /\ loop' = [loop EXCEPT !.running = @ \ {f}]
    /\ UNCHANGED <<fileExists, log, now, fsOk, ui>>

\* The handlers of POST and DELETE: one appendEvent and the response
StepAppend(f, rand) ==
    /\ f \in loop.running /\ f.pc = "append"
    /\ LET id == IF f.r.op = "POST" THEN makeId(now, rand) ELSE Undefined
           evt == IF f.r.op = "POST" THEN CreateEvent(f.r.body, id, now)
                  ELSE DeleteEvent(f.r.id, now)
           a == appendEvent(File, evt, fsOk)
       IN  /\ fileExists' = a.file.exists
           /\ log' = a.file.lines
           /\ fsOk' = a.oks
           /\ resp' = IF a.threw THEN Response(500, FALSE, Undefined, <<>>)
                      ELSE Response(IF f.r.op = "POST" THEN 201 ELSE 200, TRUE, id, <<>>)
           /\ loop' = [loop EXCEPT
                          !.running = @ \ {f},
                          !.appended = IF a.threw THEN @ ELSE Append(@, JSONstringify(evt))]
    /\ req' = f.r
    /\ UNCHANGED <<now, ui>>

Frames == {[r |-> r, pc |-> pc] : r \in LoopRequests, pc \in {"exists", "write", "read", "append"}}

NextLoop ==
    \/ \E r \in LoopRequests : Arrive(r)
    \/ \E r \in LoopRequests : Dispatch(r)
    \/ \E f \in Frames : StepExists(f)
    \/ \E f \in Frames : StepWrite(f)
    \/ \E f \in Frames : StepRead(f)
    \/ \E f \in Frames, rand \in Rands : StepAppend(f, rand)

SpecLoop == Init /\ [][NextLoop]_vars

----------------------------------------------------------------------------
(* The frontend, src/public/main.js.  Timestamps are counted in minutes    *)
(* since 1970-01-01 00:00 of the local time zone (the code sets seconds    *)
(* and milliseconds to 0), and `now` is Date.now() in that unit.           *)

\* A JavaScript number: an integer or NaN
Num(v) == [nan |-> FALSE, v |-> v]
NaN == [nan |-> TRUE, v |-> 0]

\* s.split(sep)
RECURSIVE Split(_, _)
Split(s, sep) ==
    IF \A k \in 1..Len(s) : s[k] # sep THEN <<s>>
    ELSE LET k == CHOOSE i \in 1..Len(s) :
                      s[i] = sep /\ \A j \in 1..(i - 1) : s[j] # sep
         IN  <<SubSeq(s, 1, k - 1)>> \o Split(SubSeq(s, k + 1, Len(s)), sep)

DecimalDigits == {Digits[k] : k \in 1..10}

DigitValue(c) == (CHOOSE k \in 1..10 : Digits[k] = c) - 1

RECURSIVE DecimalValue(_)
DecimalValue(s) ==
    IF s = <<>> THEN 0
    ELSE 10 * DecimalValue(SubSeq(s, 1, Len(s) - 1)) + DigitValue(s[Len(s)])

\* Number(s) for a string of digits and letters: "" is 0, digits are their
\* decimal value, anything else is NaN
Number(s) ==
    IF \A k \in 1..Len(s) : s[k] \in DecimalDigits THEN Num(DecimalValue(s)) ELSE NaN

\* The k-th variable of a destructuring of parts.map(Number).  A missing
\* element is undefined, which every use below takes as it takes NaN:
\* undefined - 1 is NaN, undefined as an argument of new Date gives an
\* invalid date, and undefined || 0 is 0
Part(parts, k) == IF k <= Len(parts) THEN Number(parts[k]) ELSE NaN

\* x || 0
OrZero(x) == IF x.nan THEN 0 ELSE x.v

\* Days from 1970-01-01 to the day d of month m (1..12) of year y in the
\* Gregorian calendar
DaysFromCivil(y, m, d) ==
    LET yy == IF m <= 2 THEN y - 1 ELSE y
        era == yy \div 400
        yoe == yy - era * 400
        mp == IF m > 2 THEN m - 3 ELSE m + 9
        doy == (153 * mp + 2) \div 5 + d - 1
        doe == yoe * 365 + yoe \div 4 - yoe \div 100 + doy
    IN  era * 146097 + doe - 719468

\* new Date(y, m0, d, hh, mm, 0, 0).getTime(): a year 0..99 is 1900 + y,
\* months and days out of range carry over, a NaN argument gives NaN
NewDate(y, m0, d, hh, mm) ==
    IF y.nan \/ m0.nan \/ d.nan THEN NaN
    ELSE LET fullYear == IF y.v >= 0 /\ y.v <= 99 THEN 1900 + y.v ELSE y.v
             yr == fullYear + (m0.v \div 12)
             mon == (m0.v % 12) + 1
         IN  Num((DaysFromCivil(yr, mon, 1) + d.v - 1) * 1440 + hh * 60 + mm)

\* taskDueTs(task)
taskDueTs(task) ==
    IF ~Truthy(task.date) \/ ~Truthy(task.time) THEN NaN
    ELSE LET ymd == Split(task.date, "-")
             hm == Split(task.time, ":")
             y == Part(ymd, 1)
             m == Part(ymd, 2)
             d == Part(ymd, 3)
             hh == Part(hm, 1)
             mm == Part(hm, 2)
         IN  NewDate(y, IF m.nan THEN NaN ELSE Num(m.v - 1), d, OrZero(hh), OrZero(mm))

\* Tasks taken off the scheduled list one minute before they are due
DueWellAfter(due, nowTs) == due.v > nowTs + 1

\* due >= now in place of due > now
DueAtOrAfter(due, nowTs) == due.v >= nowTs

\* due > now
DueAfter(due, nowTs) == due.v > nowTs

\* render: the branch that pushes t to `scheduled`
IsScheduled(t, nowTs) ==
    LET due == taskDueTs(t) IN ~due.nan /\ DueAfter(due, nowTs)

\* taskDueTs(t) || Infinity
OrInfinity(x) ==
    IF x.nan \/ x.v = 0 THEN [inf |-> TRUE, v |-> 0] ELSE [inf |-> FALSE, v |-> x.v]

\* The comparators of the two sorts; Infinity - Infinity is NaN, which sort
\* takes as 0
Compare(list, a, b) ==
    IF list = "scheduled"
    THEN LET ka == OrInfinity(taskDueTs(a))
             kb == OrInfinity(taskDueTs(b))
         IN  IF ka.inf /\ kb.inf THEN 0
             ELSE IF ka.inf THEN 1
             ELSE IF kb.inf THEN -1
             ELSE ka.v - kb.v
    ELSE OrZero(taskDueTs(b)) - OrZero(taskDueTs(a))

\* Array.prototype.sort, which is stable
RECURSIVE Insert(_, _, _)
Insert(list, sorted, x) ==
    IF sorted = <<>> THEN <<x>>
    ELSE IF Compare(list, sorted[Len(sorted)], x) <= 0 THEN Append(sorted, x)
    ELSE Append(Insert(list, SubSeq(sorted, 1, Len(sorted) - 1), x), sorted[Len(sorted)])

RECURSIVE Sort(_, _)
Sort(list, s) ==
    IF s = <<>> THEN <<>>
    ELSE Insert(list, Sort(list, SubSeq(s, 1, Len(s) - 1)), s[Len(s)])

\* Every item given a Delete button
taskItemWithDelete(task, isActive) == [task |-> task, title |-> task.name, deleteBtn |-> TRUE]

\* taskItem(task, isActive): the <li>, with its Delete button if isActive
taskItem(task, isActive) == [task |-> task, title |-> task.name, deleteBtn |-> isActive]

\* render(tasks) at Date.now() = nowTs: the children of the two lists
render(tasks, nowTs) ==
    LET scheduled == Sort("scheduled", SelectSeq(tasks, LAMBDA t : IsScheduled(t, nowTs)))
        active == Sort("active", SelectSeq(tasks, LAMBDA t : ~IsScheduled(t, nowTs)))
    IN  [scheduledList |-> [k \in 1..Len(scheduled) |-> taskItem(scheduled[k], FALSE)],
         dashboardList |-> [k \in 1..Len(active) |-> taskItem(active[k], TRUE)]]

\* The Set `notified` never consulted
NotifiedHasNever(notified, id) == FALSE

\* notified.has(id)
NotifiedHas(notified, id) == id \in notified

\* The loop of loadAndRender over tasks at Date.now() = nowTs: the Set
\* `notified` and the notify calls made, after it
RECURSIVE NotifyLoop(_, _, _, _)
NotifyLoop(tasks, notified, calls, nowTs) ==
    IF tasks = <<>> THEN [notified |-> notified, notifications |-> calls]
    ELSE LET t == Head(tasks)
             due == taskDueTs(t)
         IN  IF ~due.nan /\ due.v <= nowTs /\ ~NotifiedHas(notified, t.id)
             THEN NotifyLoop(Tail(tasks), notified \cup {t.id},
                             Append(calls, [id |-> t.id, title |-> t.name,
                                            body |-> OrElse(t.description, <<>>)]),
                             nowTs)
             ELSE NotifyLoop(Tail(tasks), notified, calls, nowTs)

\* loadAndRender() called (initial load, the 20-second poll, after a form
\* submission or a delete): the run awaits fetch
LoadAndRender ==
    /\ ui.runs < MaxRuns
    /\ ui' = [ui EXCEPT !.runs = @ + 1]
    /\ UNCHANGED <<fileExists, log, now, fsOk, req, resp, loop>>

\* A run resumes with the response data and runs to its end; the clock
\* moves by dt between the Date.now() of render and that of the loop
Resume(data, dt) ==
    /\ ui.runs > 0
    /\ now + dt <= MaxClock
    /\ now' = now + dt
    /\ IF ~data.ok
       THEN ui' = [ui EXCEPT !.runs = @ - 1]
       ELSE LET r == render(data.tasks, now)
                n == NotifyLoop(data.tasks, ui.notified, ui.notifications, now + dt)
            IN  ui' = [notified |-> n.notified,
                       notifications |-> n.notifications,
                       tasks |-> data.tasks,
                       at |-> now,
                       scheduledList |-> r.scheduledList,
                       dashboardList |-> r.dashboardList,
                       runs |-> ui.runs - 1]
    /\ UNCHANGED <<fileExists, log, fsOk, req, resp, loop>>

\* Tasks the server can return
Date70 == <<"1", "9", "7", "0", "-", "1", "-", "1">>

UITask(id, name, date, time) ==
    [id |-> id, name |-> name, date |-> date, time |-> time,
     description |-> <<>>, createdAt |-> <<"c">>]

\* p is due at minute 1, and at minute 0 under another name; q has a time
\* that is no number (00:00); r has no date; s has a date that is none; t
\* is due at minute 9; u has an empty time
TaskP1 == UITask(<<"p">>, <<"a">>, Date70, <<"0", ":", "1">>)
TaskP0 == UITask(<<"p">>, <<"b">>, Date70, <<"0", ":", "0">>)
TaskQ == UITask(<<"q">>, <<"a">>, Date70, <<"x">>)
TaskR == UITask(<<"r">>, <<"a">>, Undefined, <<"0", ":", "1">>)
TaskS == UITask(<<"s">>, <<"a">>, <<"1", "9", "7", "0">>, <<"0", ":", "0">>)
TaskT == UITask(<<"t">>, <<"a">>, Date70, <<"0", ":", "9">>)
TaskU == UITask(<<"u">>, <<"a">>, Date70, <<>>)

\* The bodies of GET /api/tasks: a failure, or tasks of different ids
UIData ==
    {[ok |-> FALSE, tasks |-> <<>>]} \cup
    {[ok |-> TRUE, tasks |-> s] :
        s \in { <<>>,
                <<TaskP1>>,
                <<TaskP0, TaskR>>,
                <<TaskR, TaskP1>>,
                <<TaskT, TaskP1>>,
                <<TaskS, TaskQ, TaskP1>>,
                <<TaskU, TaskP0, TaskT>> }}

InitUI ==
    /\ fileExists = TRUE
    /\ log = <<>>
    /\ now = 0
    /\ fsOk = <<>>
    /\ req = NoRequest
    /\ resp = NoResponse
    /\ loop = NoLoop
    /\ ui = NoUI

NextUI ==
    \/ LoadAndRender
    \/ \E data \in UIData, dt \in 0..MaxClock : Resume(data, dt)
    \/ Tick

SpecUI == InitUI /\ [][NextUI]_vars

----------------------------------------------------------------------------
(* The log as a sequence of events, read without replaying it *)

IsEvent(line) == line.kind = "object"

IsCreateFor(line, i) ==
    IsEvent(line) /\ Prop(line.members, "type") = S_create /\ Prop(line.members, "id") = i

IsDeleteFor(line, i) ==
    IsEvent(line) /\ Prop(line.members, "type") = S_delete /\ Prop(line.members, "id") = i

\* i has a create event that no later delete event for i follows
LiveByLog(lines, i) ==
    \E k \in 1..Len(lines) :
        /\ IsCreateFor(lines[k], i)
        /\ \A m \in (k + 1)..Len(lines) : ~IsDeleteFor(lines[m], i)

CreatedIn(lines, i) == \E k \in 1..Len(lines) : IsCreateFor(lines[k], i)

HasTask(tasks, i) == \E k \in 1..Len(tasks) : tasks[k].id = i

\* The ids the inputs can put in a log
AllIds ==
    {makeId(t, r) : t \in 0..MaxClock, r \in Rands} \cup DeleteIds \cup {IdA, IdB}

IsPrefix(s, t) == Len(s) <= Len(t) /\ SubSeq(t, 1, Len(s)) = s

\* The last response is a successful GET: resp.tasks is the projection of log
GotTasks == req.op = "GET" /\ resp.status = 200

----------------------------------------------------------------------------
(* Claims *)

\* C1: the projection returned by a read holds a task with id i exactly when
\* the log has a create event for i that no later delete event for i follows.
C1_LiveIffCreateWithoutLaterDelete ==
    GotTasks => \A i \in AllIds : HasTask(resp.tasks, i) <=> LiveByLog(log, i)

\* A read of a log in which an id was created and then deleted
C1_Witness ==
    /\ GotTasks
    /\ \E i \in AllIds : CreatedIn(log, i) /\ ~LiveByLog(log, i) /\ ~HasTask(resp.tasks, i)

\* C2: the log is append-only: every step leaves the lines that were in the
\* file as a prefix of the lines in it afterwards, and never removes the file.
C2_AppendOnly ==
    [][IsPrefix(log, log') /\ (fileExists => fileExists')]_vars

\* A read that follows an append to a file that already held a line
C2_Witness ==
    /\ GotTasks
    /\ Len(log) >= 2
    /\ IsEvent(log[Len(log)])
    /\ Prop(log[Len(log)].members, "createdAt") # Undefined

\* A POST was accepted and its event is the only line of the log
PostedOnEmptyLog == req.op = "POST" /\ resp.status = 201 /\ Len(log) = 1

\* A field set: name a non-empty string, date and time strings, description
\* a string or omitted
ValidFields(body) ==
    /\ body.name # Undefined /\ body.name # <<>>
    /\ body.date # Undefined
    /\ body.time # Undefined

\* task carries the fields of body, its name being `name`
RoundTrips(task, body, name) ==
    /\ task.name = name
    /\ task.date = body.date
    /\ task.time = body.time
    /\ task.description = (IF body.description = Undefined THEN <<>> ELSE body.description)
    /\ task.id # <<>> /\ task.id # Undefined
    /\ StartsWith(task.id, <<"t", "_">>)

\* C3 as stated: creating a task with valid fields F on an empty log and then
\* projecting yields exactly one task whose name, date, time and description
\* equal F and whose id is non-empty and starts with "t_".
C3_RoundTripVerbatim ==
    [][(PostedOnEmptyLog /\ ValidFields(req.body) /\ req'.op = "GET")
        => /\ resp'.status = 200
           /\ Len(resp'.tasks) = 1
           /\ RoundTrips(resp'.tasks[1], req.body, req.body.name)]_vars

\* C3 amended: ... yields exactly one task whose date, time and description
\* equal F, whose name is F's name with leading and trailing whitespace
\* removed, and whose id is non-empty and starts with "t_".
C3_RoundTripTrimmedName ==
    [][(PostedOnEmptyLog /\ ValidFields(req.body) /\ req'.op = "GET")
        => /\ resp'.status = 200
           /\ Len(resp'.tasks) = 1
           /\ RoundTrips(resp'.tasks[1], req.body, Trim(req.body.name))]_vars

\* A read after the POST of name " b " on an empty log: one task, named "b"
C3_Witness ==
    /\ GotTasks
    /\ Len(log) = 1
    /\ Len(resp.tasks) = 1
    /\ resp.tasks[1].name = <<"b">>
    /\ resp.tasks[1].description = <<>>
    /\ StartsWith(resp.tasks[1].id, <<"t", "_">>)

Front(lines) == SubSeq(lines, 1, Len(lines) - 1)

\* C4: when a delete event for an id that is live is appended and the log is
\* projected next, the projection holds no task with that id.
C4_Tombstone ==
    [][(/\ req.op = "DELETE" /\ resp.status = 200
        /\ log # <<>> /\ LiveByLog(Front(log), req.id)
        /\ req'.op = "GET")
        => resp'.status = 200 /\ ~HasTask(resp'.tasks, req.id)]_vars

\* A read of a log whose last line deletes an id that was live before it
C4_Witness ==
    /\ GotTasks
    /\ log # <<>>
    /\ \E i \in AllIds :
          /\ IsDeleteFor(log[Len(log)], i)
          /\ LiveByLog(Front(log), i)
          /\ ~HasTask(resp.tasks, i)

\* The create and delete events for id i, in log order
EventsFor(lines, i) == SelectSeq(lines, LAMBDA l : IsCreateFor(l, i) \/ IsDeleteFor(l, i))

\* The ids of the pre-existing lines
ReplayIds == {IdA, IdB}

\* task has the fields of the create event evt, read at clock value t: an
\* absent description reads "", an absent createdAt reads the time of the read
Carries(task, evt, t) ==
    /\ task.id = Prop(evt, "id")
    /\ task.name = Prop(evt, "name")
    /\ task.date = Prop(evt, "date")
    /\ task.time = Prop(evt, "time")
    /\ task.description =
          (IF Prop(evt, "description") = Undefined THEN <<>> ELSE Prop(evt, "description"))
    /\ task.createdAt =
          (IF Prop(evt, "createdAt") \in {Undefined, <<>>} THEN toISOString(t)
           ELSE Prop(evt, "createdAt"))

TasksWithId(tasks, i) == SelectSeq(tasks, LAMBDA x : x.id = i)

\* The events for i end with create, delete, create
EndsCreateDeleteCreate(ev, i) ==
    /\ Len(ev) >= 3
    /\ IsCreateFor(ev[Len(ev) - 2], i)
    /\ IsDeleteFor(ev[Len(ev) - 1], i)
    /\ IsCreateFor(ev[Len(ev)], i)

\* C5: a log whose events for i are create, delete, create in that order
\* projects to a live task for i that carries the fields of the last create.
C5_Resurrection ==
    GotTasks =>
        \A i \in ReplayIds :
            EndsCreateDeleteCreate(EventsFor(log, i), i) =>
                LET ev == EventsFor(log, i)
                    ts == TasksWithId(resp.tasks, i)
                IN  Len(ts) = 1 /\ Carries(ts[1], ev[Len(ev)].members, now)

\* A read of create(full), delete, create(bare) for one id
C5_Witness ==
    /\ GotTasks
    /\ \E i \in ReplayIds :
          LET ev == EventsFor(log, i)
          IN  /\ EndsCreateDeleteCreate(ev, i)
              /\ ev[Len(ev) - 2] # ev[Len(ev)]
              /\ HasTask(resp.tasks, i)

\* The events for i end with two create events
EndsCreateCreate(ev, i) ==
    /\ Len(ev) >= 2
    /\ IsCreateFor(ev[Len(ev) - 1], i)
    /\ IsCreateFor(ev[Len(ev)], i)

\* C6: when two create events for one id follow each other with no delete
\* between them, the projected task has exactly the fields of the later one.
C6_OverwriteOnRecreate ==
    GotTasks =>
        \A i \in ReplayIds :
            EndsCreateCreate(EventsFor(log, i), i) =>
                LET ev == EventsFor(log, i)
                    ts == TasksWithId(resp.tasks, i)
                IN  Len(ts) = 1 /\ Carries(ts[1], ev[Len(ev)].members, now)

\* A read of create(full), create(bare) for one id: the bare fields are projected
C6_Witness ==
    /\ GotTasks
    /\ \E i \in ReplayIds :
          LET ev == EventsFor(log, i)
          IN  /\ EndsCreateCreate(ev, i)
              /\ ev[Len(ev) - 1] = FullCreate(i)
              /\ ev[Len(ev)] = BareCreate(i)
              /\ HasTask(resp.tasks, i)

\* What a read of file lines `lines` returns at the present instant
ProjectionOf(exists, lines) ==
    readProjection([exists |-> exists, lines |-> lines], <<>>, now).tasks

\* A line JSON.parse rejects
Unparsable(line) == line.kind = "garbage"

\* C7: no unparsable line makes a read fail, and the read returns what it
\* returns for the same log with every unparsable line removed.
C7_CorruptionTolerance ==
    req.op = "GET" =>
        /\ resp.status = 200
        /\ resp.tasks = ProjectionOf(TRUE, SelectSeq(log, LAMBDA l : ~Unparsable(l)))

\* A read of a log with an unparsable line between the creates of two ids
C7_Witness ==
    /\ GotTasks
    /\ \E k \in 2..(Len(log) - 1) :
          /\ Unparsable(log[k])
          /\ \E j \in 1..(k - 1) : IsCreateFor(log[j], IdA)
          /\ \E j \in (k + 1)..Len(log) : IsCreateFor(log[j], IdB)
    /\ Len(resp.tasks) = 2

\* A request other than a repeat that changes nothing was handled in this step
Handled(op) ==
    /\ req'.op = op
    /\ <<req, resp, log, fileExists>>' # <<req, resp, log, fileExists>>

\* C8: a DELETE for an id the log never created answers ok, appends the
\* delete event, and leaves what a read returns unchanged.
C8_DeleteOfUnknownId ==
    [][(Handled("DELETE") /\ ~CreatedIn(log, req'.id))
        => /\ resp'.status = 200 /\ resp'.ok
           /\ Len(log') = Len(log) + 1 /\ Front(log') = log
           /\ IsDeleteFor(log'[Len(log')], req'.id)
           /\ ProjectionOf(fileExists', log') = ProjectionOf(fileExists, log)]_vars

\* A DELETE of a never-created id was accepted while another task is live
C8_Witness ==
    /\ req.op = "DELETE" /\ resp.status = 200
    /\ log # <<>> /\ ~CreatedIn(Front(log), req.id)
    /\ IsDeleteFor(log[Len(log)], req.id)
    /\ ProjectionOf(fileExists, log) # <<>>

\* An event whose type is neither create nor delete
OtherType(line) ==
    /\ IsEvent(line)
    /\ Prop(line.members, "type") # S_create
    /\ Prop(line.members, "type") # S_delete

\* C9: events of other types are ignored by replay: a read does not fail on
\* them and returns what it returns for the log without them.
C9_OtherTypesIgnored ==
    req.op = "GET" =>
        /\ resp.status = 200
        /\ resp.tasks = ProjectionOf(TRUE, SelectSeq(log, LAMBDA l : ~OtherType(l)))

\* A read of a log holding an event of another type for an id that is live
C9_Witness ==
    /\ GotTasks
    /\ \E k \in 2..Len(log) :
          /\ OtherType(log[k])
          /\ Prop(log[k].members, "id") = IdA
          /\ LiveByLog(SubSeq(log, 1, k - 1), IdA)
    /\ HasTask(resp.tasks, IdA)

\* C10: a GET while the log file is missing answers ok with the empty task
\* list, and afterwards the file exists and is empty.
C10_MissingFileOnRead ==
    [][(~fileExists /\ Handled("GET"))
        => /\ resp'.status = 200 /\ resp'.ok
           /\ resp'.tasks = <<>>
           /\ fileExists' /\ log' = <<>>]_vars

\* A read found the file missing and created it: no file starts out empty,
\* and an append leaves a line
C10_Witness ==
    /\ GotTasks
    /\ fileExists /\ log = <<>>
    /\ resp.tasks = <<>>


\* A POST answered 201 in this step
PostAccepted == Handled("POST") /\ resp'.status = 201

\* The value a create event stores for a submitted date, time or description
Submitted(v) == IF v = Undefined THEN <<>> ELSE v

LastLine(lines) == lines[Len(lines)]

\* The step appended one line, after the lines already there: a create event
\* with the submitted date, time and description, the name `name`, an id
\* that starts with "t_" and a non-empty createdAt
AppendsCreate(name) ==
    /\ Len(log') = Len(log) + 1
    /\ Front(log') = log
    /\ LET line == LastLine(log')
           evt == line.members
       IN  /\ IsEvent(line)
           /\ Prop(evt, "type") = S_create
           /\ Prop(evt, "name") = name
           /\ Prop(evt, "date") = Submitted(req'.body.date)
           /\ Prop(evt, "time") = Submitted(req'.body.time)
           /\ Prop(evt, "description") = Submitted(req'.body.description)
           /\ Prop(evt, "id") # Undefined /\ Prop(evt, "id") # <<>>
           /\ StartsWith(Prop(evt, "id"), <<"t", "_">>)
           /\ Prop(evt, "id") = resp'.id
           /\ Prop(evt, "createdAt") # Undefined /\ Prop(evt, "createdAt") # <<>>

\* C11 as stated: every successful POST appends exactly one line after the
\* lines already there, a create event whose name, date, time and
\* description are the submitted values, whose id starts with "t_" and whose
\* createdAt is non-empty.
C11_PostAppendsSubmitted ==
    [][PostAccepted => AppendsCreate(req'.body.name)]_vars

\* C11 amended: ... whose date, time and description are the submitted
\* values and whose name is the submitted name with leading and trailing
\* whitespace removed ...
C11_PostAppendsTrimmedName ==
    [][PostAccepted => AppendsCreate(Trim(req'.body.name))]_vars

\* Two POSTs in a row: the last line is the second request's event
C11_Witness ==
    /\ req.op = "POST" /\ resp.status = 201
    /\ Len(log) = 2
    /\ IsEvent(log[1]) /\ Prop(log[1].members, "createdAt") # Undefined
    /\ Prop(log[1].members, "name") = <<"a">>
    /\ Prop(log[2].members, "name") = <<"b">>
    /\ Prop(log[2].members, "id") = resp.id


\* The create events the POST handler wrote: they alone carry createdAt
\* among the lines of Spec
WrittenByPost(line) ==
    /\ IsEvent(line)
    /\ Prop(line.members, "type") = S_create
    /\ Prop(line.members, "createdAt") # Undefined

\* C12: every create event written by the POST handler has a non-empty
\* name, whatever body was accepted.
C12_WrittenNameNonEmpty ==
    \A k \in 1..Len(log) :
        WrittenByPost(log[k]) =>
            /\ Prop(log[k].members, "name") # Undefined
            /\ Prop(log[k].members, "name") # <<>>


\* Positions of two different create events written by the POST handler
WrittenPairs ==
    {p \in (1..Len(log)) \X (1..Len(log)) :
        p[1] < p[2] /\ WrittenByPost(log[p[1]]) /\ WrittenByPost(log[p[2]])}

IdAt(k) == Prop(log[k].members, "id")

\* C13 as stated: no two create events appended by successful POSTs carry
\* the same id.
C13_IdsUnique ==
    \A p \in WrittenPairs : IdAt(p[1]) # IdAt(p[2])

\* C13 amended: two create events appended by successful POSTs carry the
\* same id only when they were made at the same clock value with the same
\* random draw; a different clock value or a different draw gives a
\* different id.
C13_SameIdOnlyOnSameDraw ==
    /\ \A p \in WrittenPairs :
          IdAt(p[1]) = IdAt(p[2]) =>
              Prop(log[p[1]].members, "createdAt") =
                  Prop(log[p[2]].members, "createdAt")
    /\ (req.op = "POST" /\ resp.status = 201) =>
          \A t \in 0..MaxClock, rand \in Rands :
              makeId(t, rand) = resp.id =>
                  /\ toISOString(t) = Prop(LastLine(log).members, "createdAt")
                  /\ \A t2 \in 0..MaxClock, rand2 \in Rands :
                        makeId(t2, rand2) = resp.id => rand2 = rand

\* Two accepted POSTs at one clock value with one random draw: the second
\* event repeats the first one's id under another name
C13_Witness ==
    /\ req.op = "POST" /\ resp.status = 201
    /\ Len(log) = 2
    /\ <<1, 2>> \in WrittenPairs
    /\ IdAt(1) = IdAt(2)
    /\ Prop(log[1].members, "name") # Prop(log[2].members, "name")


\* A second successful read follows a successful read, nothing appended
\* in between
Reread ==
    /\ GotTasks
    /\ req'.op = "GET" /\ resp'.status = 200
    /\ log' = log

\* C14: two projections of the same unchanged log return the same sequence
\* of tasks with the same field values, for every log, the logs whose
\* create events lack optional fields included.
C14_ProjectionPure ==
    [][Reread => resp'.tasks = resp.tasks]_vars


\* The number of create events for i in lines
CreatesFor(lines, i) == Len(SelectSeq(lines, LAMBDA l : IsCreateFor(l, i)))

\* C16: the projection holds at most one task per id: no two tasks returned
\* by one read have the same id, however many create events the log holds
\* for that id.
C16_OneTaskPerId ==
    GotTasks =>
        \A j, k \in 1..Len(resp.tasks) :
            resp.tasks[j].id = resp.tasks[k].id => j = k

\* A log with three create events for one id and a create for another,
\* read as two tasks
C16_Witness ==
    /\ GotTasks
    /\ CreatesFor(log, IdA) >= 3
    /\ CreatesFor(log, IdB) = 1
    /\ Len(TasksWithId(resp.tasks, IdA)) = 1
    /\ Len(resp.tasks) = 2


\* A POST whose body has no name was handled in this step
PostWithoutName ==
    /\ Handled("POST")
    /\ \/ req'.body.name = Undefined
       \/ req'.body.name = Null
       \/ req'.body.name = <<>>

\* C18: a POST whose body has no name (missing, empty or otherwise falsy)
\* is answered 400 with ok false and no id, and appends nothing: the log
\* after the request is the log before it.
C18_PostWithoutNameRejected ==
    [][PostWithoutName =>
          /\ resp'.status = 400
          /\ resp'.ok = FALSE
          /\ resp'.id = Undefined
          /\ log' = log
          /\ fileExists' = fileExists]_vars

\* A POST with an empty name rejected after an accepted one: the log still
\* ends with the accepted event
C18_Witness ==
    /\ req.op = "POST" /\ req.body.name = <<>>
    /\ resp.status = 400 /\ resp.ok = FALSE
    /\ Len(log) = 1 /\ WrittenByPost(log[1])

\* A POST with a null name rejected on a missing file: no file is made
C18_WitnessNull ==
    /\ req.op = "POST" /\ req.body.name = Null
    /\ resp.status = 400
    /\ ~fileExists


\* The fs calls made in this step, and whether one of them threw
CallsMade == Len(fsOk) - Len(fsOk')
Threw == \E k \in 1..CallsMade : ~fsOk[k]

\* Some request was handled in this step (FsFails and Tick leave req and
\* resp alone; a request repeated with the same outcome still moves fsOk)
HandledIO == <<req, resp, log, fileExists>>' # <<req, resp, log, fileExists>> \/ CallsMade > 0

\* C15: an fs failure while appending or reading is surfaced, not retried:
\* the call that throws is the last fs call of the request, an append
\* request makes one append call and a read request one read call (after
\* the one write that makes a missing file), the response is 500 with ok
\* false, and a failed append leaves the file as it was.
C15_FailureSurfacedNotRetried ==
    [][HandledIO =>
          /\ Threw =>
                /\ resp'.status = 500 /\ resp'.ok = FALSE
                /\ \A k \in 1..(CallsMade - 1) : fsOk[k]
                /\ log' = log
                /\ req'.op \in {"POST", "DELETE"} => fileExists' = fileExists
          /\ ~Threw => resp'.status # 500
          /\ req'.op \in {"POST", "DELETE"} => CallsMade <= 1
          /\ req'.op = "GET" => CallsMade <= IF fileExists THEN 1 ELSE 2]_vars

\* A POST that failed after one that succeeded: the log still ends with
\* the first one's event
C15_Witness ==
    /\ req.op = "POST" /\ resp.status = 500
    /\ Len(log) = 1 /\ WrittenByPost(log[1])

\* A GET on a missing file whose write succeeded and whose read threw
C15_WitnessRead ==
    /\ req.op = "GET" /\ resp.status = 500
    /\ fileExists /\ log = <<>>


\* The lines whose append returned are the last lines of the file, in the
\* order they were appended
AppendedKept ==
    /\ Len(loop.appended) <= Len(log)
    /\ SubSeq(log, Len(log) - Len(loop.appended) + 1, Len(log)) = loop.appended

\* C17: however the concurrent POST, DELETE and GET requests interleave, no
\* event whose append succeeded is lost or overwritten; the write of an
\* empty file in readProjection happens only while the file is still
\* missing, so it erases no event appended since the existence check.
C17_NoAppendedEventLost ==
    /\ AppendedKept
    /\ \A f \in loop.running : f.pc = "write" => (~fileExists /\ loop.appended = <<>>)

\* A GET between its existence check and its write, with a POST and a
\* DELETE waiting
C17_Witness ==
    /\ \E f \in loop.running : f.pc = "write"
    /\ \E r \in loop.pending : r.op = "POST"
    /\ \E r \in loop.pending : r.op = "DELETE"

\* Both appends made after that GET, a second GET waiting
C17_WitnessAppended ==
    /\ Len(loop.appended) = 2 /\ log = loop.appended
    /\ \E r \in loop.pending : r.op = "GET"


----------------------------------------------------------------------------
(* The frontend *)

\* The notify calls made in this step
NewCalls == (Len(ui.notifications) + 1)..Len(ui'.notifications)

\* C19: notify is called at most once for each task id over all the
\* loadAndRender runs of a session, overlapping or not, and only in a run
\* whose response holds that task with a defined due time not later than
\* the current time.
C19_NotifyOncePerIdWhenDue ==
    [][/\ IsPrefix(ui.notifications, ui'.notifications)
       /\ \A k \in NewCalls :
            LET c == ui'.notifications[k]
            IN  /\ \A j \in 1..Len(ui'.notifications) :
                      ui'.notifications[j].id = c.id => j = k
                /\ \E i \in 1..Len(ui'.tasks) :
                      LET t == ui'.tasks[i]
                      IN  /\ t.id = c.id
                          /\ Truthy(t.date) /\ Truthy(t.time)
                          /\ ~taskDueTs(t).nan
                          /\ taskDueTs(t).v <= now']_vars

\* Task p notified under its first name; a later run got it again, due
\* under another name, and made no call
C19_Witness ==
    /\ Len(ui.notifications) = 1
    /\ ui.notifications[1].id = <<"p">> /\ ui.notifications[1].title = <<"a">>
    /\ \E i \in 1..Len(ui.tasks) :
          /\ ui.tasks[i].id = <<"p">> /\ ui.tasks[i].name = <<"b">>
          /\ taskDueTs(ui.tasks[i]).v <= ui.at

InList(list, t) == \E k \in 1..Len(list) : list[k].task = t

\* C20: render puts every task it is given in exactly one of the two lists:
\* in Scheduled exactly when the task has a date and a time and its due
\* timestamp is after now, in Dashboard otherwise; Dashboard items have a
\* Delete button and Scheduled items have none.
C20_RenderPartitions ==
    /\ Len(ui.scheduledList) + Len(ui.dashboardList) = Len(ui.tasks)
    /\ \A i \in 1..Len(ui.tasks) :
          LET t == ui.tasks[i]
              later == /\ Truthy(t.date) /\ Truthy(t.time)
                       /\ ~taskDueTs(t).nan
                       /\ taskDueTs(t).v > ui.at
          IN  /\ InList(ui.scheduledList, t) <=> later
              /\ InList(ui.dashboardList, t) <=> ~later
    /\ \A k \in 1..Len(ui.scheduledList) : ~ui.scheduledList[k].deleteBtn
    /\ \A k \in 1..Len(ui.dashboardList) : ui.dashboardList[k].deleteBtn

\* One task rendered as scheduled, and a task without a date on the
\* dashboard
C20_Witness ==
    /\ Len(ui.scheduledList) = 1 /\ Len(ui.dashboardList) = 1
    /\ ui.scheduledList[1].task.id = <<"p">>
    /\ ui.dashboardList[1].task.date = Undefined
    /\ ui.at = 0

\* A task due exactly at the time of render is on the dashboard
C20_WitnessDueNow ==
    /\ ui.at = 1
    /\ \E k \in 1..Len(ui.dashboardList) :
          /\ ui.dashboardList[k].task.id = <<"p">>
          /\ taskDueTs(ui.dashboardList[k].task) = Num(1)


----------------------------------------------------------------------------
(* Frame and order of the projection *)

\* The last line of the log is a create or delete event for i
EndsWithEventFor(lines, i) ==
    lines # <<>> /\ (IsCreateFor(LastLine(lines), i) \/ IsDeleteFor(LastLine(lines), i))

\* Events for the second id that no pre-existing file of SpecReplay ends with
MoreEvents == {BareCreate(IdB), DeleteLine(IdB)}

\* C21: an event for one id never affects another id: for every log and
\* every two different ids i and j, the log with a create or delete event
\* for i appended projects j as the log without it does: live or not, and
\* with the same field values.
C21_OtherIdsUntouched ==
    GotTasks =>
        /\ \A i \in ReplayIds, j \in ReplayIds :
              (i # j /\ EndsWithEventFor(log, i)) =>
                  TasksWithId(resp.tasks, j) =
                      TasksWithId(ProjectionOf(TRUE, Front(log)), j)
        /\ \A e \in MoreEvents :
              TasksWithId(ProjectionOf(TRUE, Append(log, e)), IdA) =
                  TasksWithId(resp.tasks, IdA)

\* A read of a log that ends with a delete of the first id, live before
\* it, while the second id is live before and after
C21_Witness ==
    /\ GotTasks
    /\ Len(log) >= 3
    /\ IsDeleteFor(LastLine(log), IdA)
    /\ HasTask(ProjectionOf(TRUE, Front(log)), IdA)
    /\ ~HasTask(resp.tasks, IdA)
    /\ HasTask(resp.tasks, IdB)


\* The position of the most recent delete event for i, 0 if there is none
LastDeleteOf(lines, i) ==
    IF \E k \in 1..Len(lines) : IsDeleteFor(lines[k], i)
    THEN CHOOSE k \in 1..Len(lines) :
             /\ IsDeleteFor(lines[k], i)
             /\ \A m \in (k + 1)..Len(lines) : ~IsDeleteFor(lines[m], i)
    ELSE 0

\* The position of the first create event for a live id i that follows its
\* most recent delete
AnchorOf(lines, i) ==
    CHOOSE k \in (LastDeleteOf(lines, i) + 1)..Len(lines) :
        /\ IsCreateFor(lines[k], i)
        /\ \A m \in (LastDeleteOf(lines, i) + 1)..(k - 1) : ~IsCreateFor(lines[m], i)

\* C22: the tasks of a read come in the log order of, for each live id, its
\* first create event after that id's most recent delete (its first create
\* if it was never deleted).
C22_OrderByFirstCreateSinceDelete ==
    GotTasks =>
        \A a, b \in 1..Len(resp.tasks) :
            a < b =>
                /\ LiveByLog(log, resp.tasks[a].id)
                /\ LiveByLog(log, resp.tasks[b].id)
                /\ AnchorOf(log, resp.tasks[a].id) < AnchorOf(log, resp.tasks[b].id)

\* The first id created, the second created, the first created again: the
\* first id keeps the first place, with the fields of its last create
C22_Witness ==
    /\ GotTasks
    /\ Len(log) = 3
    /\ log[1] = FullCreate(IdA) /\ log[2] = FullCreate(IdB) /\ log[3] = BareCreate(IdA)
    /\ Len(resp.tasks) = 2
    /\ resp.tasks[1].id = IdA /\ resp.tasks[1].name = <<"n">>
    /\ resp.tasks[2].id = IdB

\* The first id deleted and created again after the second: it comes last
C22_WitnessMoved ==
    /\ GotTasks
    /\ Len(log) = 4
    /\ IsCreateFor(log[1], IdA) /\ IsCreateFor(log[2], IdB)
    /\ IsDeleteFor(log[3], IdA) /\ IsCreateFor(log[4], IdA)
    /\ Len(resp.tasks) = 2
    /\ resp.tasks[1].id = IdB /\ resp.tasks[2].id = IdA


\* C23: after every loadAndRender run that got a successful response, each
\* task with a defined due time that the run rendered in the Dashboard list
\* has its id in the Set `notified`: no due task is shown as active without
\* having been notified in this run or an earlier one.
C23_ActiveDueTasksNotified ==
    \A k \in 1..Len(ui.dashboardList) :
        LET t == ui.dashboardList[k].task
        IN  ~taskDueTs(t).nan =>
                /\ t.id \in ui.notified
                /\ \E c \in 1..Len(ui.notifications) : ui.notifications[c].id = t.id

\* A run that rendered on the dashboard a due task notified in an earlier
\* run under another name, and a task without a date that was never notified
C23_Witness ==
    /\ Len(ui.dashboardList) = 2
    /\ InList(ui.dashboardList, TaskP0)
    /\ InList(ui.dashboardList, TaskR)
    /\ ui.notified = {<<"p">>}
    /\ Len(ui.notifications) = 1 /\ ui.notifications[1].title = <<"a">>

\* A run that rendered a task due at that minute and notified it itself
C23_WitnessSameRun ==
    /\ ui.tasks = <<TaskP1>> /\ ui.at = 1
    /\ InList(ui.dashboardList, TaskP1)
    /\ Len(ui.notifications) = 1 /\ ui.notifications[1].title = <<"a">>

====
